---- MODULE Spec2Model ----
(***************************************************************************)
(* A model of cgc-strategy: the GcStrategy backend contract (lib.rs,       *)
(* heap.rs), the GcHeap facade with its Gc handles and Root guards         *)
(* (lib.rs) and the Trace implementations of the built-in types            *)
(* (trace.rs).                                                             *)
(***************************************************************************)
EXTENDS Integers, Sequences, FiniteSets, Bags, TLC

(***************************************************************************)
(* Bounds of the model.                                                    *)
(***************************************************************************)
\* allocate calls that return a handle over a run, all heaps together
MaxAllocs == 2
\* Root guards constructed over a run
MaxGuards == 2
\* mutator threads
NumThreads == 1
\* elements of a traced container (arrays, sequences, tuples)
MaxLen == 2
\* pin calls made directly through strategy() and not yet undone
MaxExt == 1

\* the program's two heaps (GcHeap values), each with a backend of its own
Heaps == {1, 2}
Handles == 1..MaxAllocs
Threads == 1..NumThreads
\* a GC object: a handle, relative to the heap that issued it
Objects == Heaps \X Handles

VARIABLES
    lifecycle,   \* backend: object -> Unallocated/Uninitialized/Initialized/Finalized
    rootCount,   \* backend: object -> number of roots
    pinCount,    \* backend: object -> number of pins
    content,     \* the value stored in each object's storage
    nextHandle,  \* backend: heap -> handles issued so far
    guards,      \* the live Root guards, a bag of Root records
    built,       \* object -> guards a heap's alloc and root have built for it
    dropUnroots, \* object -> unroot calls made on it by the drops of guards
    copies,      \* Gc values copied out of Root guards and held by the program
    pc,          \* thread -> where it is inside GcHeap::alloc, and what the
                 \* collection cycles did meanwhile with the object it is filling
    hist,        \* object -> the lifecycle calls applied to it, in order
    extPins,     \* object -> pins added directly through strategy(), still held
    ub,          \* a lifecycle call was made outside its safety contract
    tval,        \* the value handed to the last trace call
    visited,     \* the handles the visitor received in that call, in order
    tpc          \* "idle" / "ready" / "done": the stand-alone trace call

heapVars == <<lifecycle, rootCount, pinCount, content, nextHandle, hist>>
appVars == <<guards, built, dropUnroots, copies, pc>>
extVars == <<extPins, ub>>
traceVars == <<tval, visited, tpc>>
vars == <<lifecycle, rootCount, pinCount, content, nextHandle, hist,
          guards, built, dropUnroots, copies, pc, extPins, ub, tval, visited, tpc>>

(***************************************************************************)
(* Values and the Trace implementations (trace.rs).                        *)
(* A value is a record [kind, h, elems]: kind names the Rust type or       *)
(* variant, h is the handle of a Gc, elems the values stored inside.       *)
(***************************************************************************)
Val(k, h, es) == [kind |-> k, h |-> h, elems |-> es]
\* u8 .. PhantomData, (): the empty_trace! types
BaseValue == Val("Base", 0, <<>>)
\* fn(..) -> R
FnValue == Val("Fn", 0, <<>>)
\* storage returned by allocate and not written yet
UninitValue == Val("Uninit", 0, <<>>)
GcValue(h) == Val("Gc", h, <<>>)

LeafKinds == {"Base", "Fn"}
SeqKinds == {"Array", "Slice", "Vec", "VecDeque", "LinkedList"}
PtrKinds == {"Box", "Rc", "Arc"}

\* TraceContext::accept: the visitor is called with the handle of the Gc
Accept(gc) == <<gc.h>>

RECURSIVE Trace(_)
RECURSIVE TraceEach(_)
\* `for elem in self { elem.trace(ctx) }`, and the tuple's field-by-field calls
TraceEach(es) ==
    IF es = <<>> THEN <<>> ELSE Trace(Head(es)) \o TraceEach(Tail(es))

TraceGcFollowing(v) == Accept(v) \o Trace(content[<<1, v.h>>])

TraceLeaf(v) == <<>>
TraceGc(v) == Accept(v)
TracePtr(v) == Trace(v.elems[1])
TraceSeq(v) == TraceEach(v.elems)
TraceOption(v) == IF v.kind = "Some" THEN Trace(v.elems[1]) ELSE <<>>
TraceResult(v) ==
    CASE v.kind = "Ok" -> Trace(v.elems[1])
      [] v.kind = "Err" -> Trace(v.elems[1])
TraceTuple(v) == TraceEach(v.elems)

\* <T as Trace>::trace: the sequence of visitor calls one trace call makes
Trace(v) ==
    CASE v.kind \in LeafKinds -> TraceLeaf(v)
      [] v.kind = "Gc" -> TraceGc(v)
      [] v.kind \in PtrKinds -> TracePtr(v)
      [] v.kind \in SeqKinds -> TraceSeq(v)
      [] v.kind \in {"None", "Some"} -> TraceOption(v)
      [] v.kind \in {"Ok", "Err"} -> TraceResult(v)
      [] v.kind = "Tuple" -> TraceTuple(v)

(***************************************************************************)
(* The GcStrategy contract (lib.rs 58-87, heap.rs 58-87): what each        *)
(* backend call does to the backend's bookkeeping.                         *)
(***************************************************************************)
States == {"Unallocated", "Uninitialized", "Initialized", "Finalized"}

StrategyAllocateUnrooted(rc, o) == [rc EXCEPT ![o] = 0]
StrategyAllocateUnpinned(pn, o) == [pn EXCEPT ![o] = 0]

\* allocate, on success: the object is Uninitialized, rooted and pinned
StrategyAllocateState(lc, o) == [lc EXCEPT ![o] = "Uninitialized"]
StrategyAllocateRoots(rc, o) == [rc EXCEPT ![o] = 1]
StrategyAllocatePins(pn, o) == [pn EXCEPT ![o] = 1]

\* root / unroot: the per-object root count
StrategyRoot(rc, o) == [rc EXCEPT ![o] = @ + 1]
StrategyUnroot(rc, o) == [rc EXCEPT ![o] = @ - 1]

\* pin / unpin: the per-object pin count
StrategyPin(pn, o) == [pn EXCEPT ![o] = @ + 1]
StrategyUnpin(pn, o) == [pn EXCEPT ![o] = @ - 1]

StrategySetInitializedKeepingPin(lc, pn, o) ==
    {[lifecycle |-> [lc EXCEPT ![o] = "Initialized"], pinCount |-> pn]}

\* set_initialized: Uninitialized -> Initialized, the allocation's pin released,
\* the root kept. On an object that is not Uninitialized the call is outside
\* its safety contract: the backend may overwrite the state or leave it, and
\* may or may not take a pin off.
StrategySetInitialized(lc, pn, o) ==
    IF lc[o] = "Uninitialized"
    THEN {[lifecycle |-> [lc EXCEPT ![o] = "Initialized"],
           pinCount |-> [pn EXCEPT ![o] = @ - 1]]}
    ELSE {[lifecycle |-> l, pinCount |-> p] :
            l \in {lc, [lc EXCEPT ![o] = "Initialized"]},
            p \in {pn, [pn EXCEPT ![o] = IF @ > 0 THEN @ - 1 ELSE 0]}}

\* set_finalized: Initialized -> Finalized. On an object that is not
\* Initialized the call is outside its safety contract.
StrategySetFinalized(lc, o) ==
    IF lc[o] = "Initialized"
    THEN {[lc EXCEPT ![o] = "Finalized"]}
    ELSE {lc, [lc EXCEPT ![o] = "Finalized"]}

\* the safety contract of set_initialized: the object is Uninitialized
SetInitializedAllowed(o) == lifecycle[o] = "Uninitialized"

\* one entry of an object's history of lifecycle calls
Call(c, pre, by) == [call |-> c, pre |-> pre, by |-> by]
Logged(o, c, by) == [hist EXCEPT ![o] = Append(@, Call(c, lifecycle[o], by))]

(***************************************************************************)
(* Root guards and the threads that hold them (lib.rs 163-181).            *)
(***************************************************************************)
\* Root { handle, gc }: gc is the backend the guard borrows; by is the heap
\* whose alloc or root built the guard, owner the thread whose scope holds it
NewRoot(gc, h, by, t) == [gc |-> gc, handle |-> h, by |-> by, owner |-> t]

Idle == [at |-> "idle", heap |-> 0, handle |-> 0, val |-> BaseValue, cycle |-> "none"]
Panicking ==
    [at |-> "panicking", heap |-> 0, handle |-> 0, val |-> BaseValue, cycle |-> "none"]

LiveGuards == BagToSet(guards)
\* the live guards that hold handle o[2] against the backend of heap o[1]
RECURSIVE Copies(_, _)
Copies(B, S) ==
    IF S = {} THEN 0
    ELSE LET x == CHOOSE y \in S : TRUE IN CopiesIn(x, B) + Copies(B, S \ {x})
GuardsOf(o) == Copies(guards, {r \in LiveGuards : r.gc = o[1] /\ r.handle = o[2]})

RECURSIVE SumOver(_, _)
SumOver(f, S) ==
    IF S = {} THEN 0
    ELSE LET x == CHOOSE y \in S : TRUE IN f[x] + SumOver(f, S \ {x})

\* allocs that have their handle and have not built their guard yet
InFlight == {t \in Threads : pc[t].at \in {"allocated", "written", "initialized"}}
GuardRoom == SumOver(built, Objects) + Cardinality(InFlight) < MaxGuards

\* the values a caller can build for heap k: a plain integer, or a sequence
\* holding a Gc it copied out of a guard of that heap
AllocValues(k) ==
    {BaseValue} \cup {Val("Vec", 0, <<GcValue(c[2])>>) : c \in {x \in copies : x[1] = k}}

(***************************************************************************)
(* GcHeap::alloc (lib.rs 108-126), one action per backend call.            *)
(***************************************************************************)
\* strategy.allocate(vtable) returns Some(alloc)
AllocAllocate(t, k, v) ==
    /\ ~ub
    /\ pc[t].at = "idle"
    /\ GuardRoom
    /\ SumOver(nextHandle, Heaps) < MaxAllocs
    /\ LET h == nextHandle[k] + 1
           o == <<k, h>>
       IN /\ lifecycle' = StrategyAllocateState(lifecycle, o)
          /\ rootCount' = StrategyAllocateRoots(rootCount, o)
          /\ pinCount' = StrategyAllocatePins(pinCount, o)
          /\ nextHandle' = [nextHandle EXCEPT ![k] = h]
          /\ hist' = Logged(o, "allocate", "alloc")
          /\ pc' = [pc EXCEPT ![t] = [at |-> "allocated", heap |-> k, handle |-> h,
                                      val |-> v, cycle |-> "none"]]
    /\ UNCHANGED <<content, guards, built, dropUnroots, copies, extVars, traceVars>>

AllocOutOfMemoryAfterRoot(t, k) ==
    /\ ~ub
    /\ pc[t].at = "idle"
    /\ nextHandle[k] > 0
    /\ rootCount' = StrategyRoot(rootCount, <<k, nextHandle[k]>>)
    /\ pc' = [pc EXCEPT ![t] = Panicking]
    /\ UNCHANGED <<lifecycle, pinCount, content, nextHandle, hist, guards, built,
                   dropUnroots, copies, extVars, traceVars>>

\* strategy.allocate(vtable) returns None: panic!("out of memory")
AllocOutOfMemory(t, k) ==
    /\ ~ub
    /\ pc[t].at = "idle"
    /\ pc' = [pc EXCEPT ![t] = Panicking]
    /\ UNCHANGED <<heapVars, guards, built, dropUnroots, copies, extVars, traceVars>>

AllocHandleFirst(t) == <<pc[t].heap, 1>>

\* alloc.handle, alloc.ptr: the allocation the backend returned to this call
AllocHandle(t) == <<pc[t].heap, pc[t].handle>>

AllocWrittenNothing(c, o, v) == c

\* alloc.ptr.cast::<T>().write(value)
AllocWritten(c, o, v) == [c EXCEPT ![o] = v]

AllocWrite(t) ==
    /\ ~ub
    /\ pc[t].at = "allocated"
    /\ LET o == AllocHandle(t)
       IN /\ content' = AllocWritten(content, o, pc[t].val)
          /\ hist' = Logged(o, "write", "alloc")
    /\ pc' = [pc EXCEPT ![t].at = "written"]
    /\ UNCHANGED <<lifecycle, rootCount, pinCount, nextHandle, guards, built,
                   dropUnroots, copies, extVars, traceVars>>

AllocSetInitializedUnwritten(t) ==
    /\ ~ub
    /\ pc[t].at \in {"allocated", "written"}
    /\ LET o == AllocHandle(t)
       IN /\ \E out \in StrategySetInitialized(lifecycle, pinCount, o) :
                /\ lifecycle' = out.lifecycle
                /\ pinCount' = out.pinCount
          /\ hist' = Logged(o, "set_initialized", "alloc")
          /\ ub' = ~SetInitializedAllowed(o)
    /\ pc' = [pc EXCEPT ![t].at = "initialized"]
    /\ UNCHANGED <<rootCount, content, nextHandle, guards, built, dropUnroots,
                   copies, extPins, traceVars>>

\* self.strategy.set_initialized(alloc.handle)
AllocSetInitialized(t) ==
    /\ ~ub
    /\ pc[t].at = "written"
    /\ LET o == AllocHandle(t)
       IN /\ \E out \in StrategySetInitialized(lifecycle, pinCount, o) :
                /\ lifecycle' = out.lifecycle
                /\ pinCount' = out.pinCount
          /\ hist' = Logged(o, "set_initialized", "alloc")
          /\ ub' = ~SetInitializedAllowed(o)
    /\ pc' = [pc EXCEPT ![t].at = "initialized"]
    /\ UNCHANGED <<rootCount, content, nextHandle, guards, built, dropUnroots,
                   copies, extPins, traceVars>>

\* Root { handle: Gc { handle: alloc.handle, .. }, gc: &self.strategy }
AllocRootGuard(k, h, t) == NewRoot(k, h, k, t)

AllocReturn(t) ==
    /\ ~ub
    /\ pc[t].at = "initialized"
    /\ LET o == AllocHandle(t)
           r == AllocRootGuard(pc[t].heap, pc[t].handle, t)
       IN /\ guards' = guards (+) SetToBag({r})
          /\ built' = [built EXCEPT ![o] = @ + 1]
          /\ hist' = Logged(o, "Root", "alloc")
    /\ pc' = [pc EXCEPT ![t] = Idle]
    /\ UNCHANGED <<lifecycle, rootCount, pinCount, content, nextHandle, dropUnroots,
                   copies, extVars, traceVars>>

(***************************************************************************)
(* GcHeap::root, Deref and Drop of Root (lib.rs 128-134, 168-181).         *)
(***************************************************************************)
GcHeapRootNoCall(rc, k, h) == rc
GcHeapRootUnrooting(rc, k, h) == StrategyUnroot(rc, <<k, h>>)

\* heap.root(value): strategy.root(value.handle), then the guard
GcHeapRootCount(rc, k, h) == StrategyRoot(rc, <<k, h>>)
GcHeapRootGuard(k, h, t) == NewRoot(k, h, k, t)

\* the program roots a Gc it holds a copy of, on the heap the Gc came from
GcHeapRoot(t, c) ==
    /\ ~ub
    /\ pc[t].at = "idle"
    /\ GuardRoom
    /\ c \in copies
    /\ rootCount' = GcHeapRootCount(rootCount, c[1], c[2])
    /\ guards' = guards (+) SetToBag({GcHeapRootGuard(c[1], c[2], t)})
    /\ built' = [built EXCEPT ![c] = @ + 1]
    /\ UNCHANGED <<lifecycle, pinCount, content, nextHandle, hist, dropUnroots,
                   copies, pc, extVars, traceVars>>

\* `let gc: Gc<T> = *root;`: Deref hands out the Gc, which is Copy
RootDeref(r) == <<r.gc, r.handle>>

CopyGc(r) ==
    /\ ~ub
    /\ r \in LiveGuards
    /\ pc[r.owner].at = "idle"
    /\ RootDeref(r) \notin copies
    /\ copies' = copies \cup {RootDeref(r)}
    /\ UNCHANGED <<heapVars, guards, built, dropUnroots, pc, extVars, traceVars>>

RootDropTwice(r) == << <<r.gc, r.handle>>, <<r.gc, r.handle>> >>

\* Drop for Root: the unroot calls the drop makes, as <<backend, handle>>
RootDrop(r) == << <<r.gc, r.handle>> >>

RECURSIVE UnrootAll(_, _)
UnrootAll(rc, calls) ==
    IF calls = <<>> THEN rc ELSE UnrootAll(StrategyUnroot(rc, Head(calls)), Tail(calls))

RECURSIVE CountAll(_, _)
CountAll(n, calls) ==
    IF calls = <<>> THEN n
    ELSE CountAll([n EXCEPT ![Head(calls)] = @ + 1], Tail(calls))

Dropped(r) ==
    /\ rootCount' = UnrootAll(rootCount, RootDrop(r))
    /\ dropUnroots' = CountAll(dropUnroots, RootDrop(r))
    /\ guards' = guards (-) SetToBag({r})
    /\ UNCHANGED <<lifecycle, pinCount, content, nextHandle, hist, built, copies, pc,
                   extVars, traceVars>>

\* the guard's scope ends: normal or early return, or an explicit drop
DropRoot(r) ==
    /\ ~ub
    /\ r \in LiveGuards
    /\ pc[r.owner].at = "idle"
    /\ Dropped(r)

\* the guard's scope is left by the panic of alloc unwinding through it
DropUnwinding(r) ==
    /\ ~ub
    /\ r \in LiveGuards
    /\ pc[r.owner].at = "panicking"
    /\ Dropped(r)

\* the unwinding has left every scope of the thread; the thread goes on
\* (the panic is caught at the thread's boundary)
Unwound(t) ==
    /\ ~ub
    /\ pc[t].at = "panicking"
    /\ \A r \in LiveGuards : r.owner # t
    /\ pc' = [pc EXCEPT ![t] = Idle]
    /\ UNCHANGED <<heapVars, guards, built, dropUnroots, copies, extVars, traceVars>>

(***************************************************************************)
(* The collector behind the backend, held to the contract of lib.rs 30-57  *)
(* and 72-76: a rooted object is reachable, the objects a reachable        *)
(* Initialized object reports to the visitor are reachable, and only an    *)
(* object found unreachable is handed to set_finalized.                    *)
(***************************************************************************)
Range(s) == {s[i] : i \in 1..Len(s)}

\* the objects of heap k with a root
Rooted(k) == {h \in Handles : rootCount[<<k, h>>] > 0}

\* the objects whose trace function a cycle invokes: the marked ones that
\* hold a value
Traceable(k, S) == {h \in S : lifecycle[<<k, h>>] = "Initialized"}

\* the handles the visitor receives from object h of heap k. Storage that
\* was never written holds no value: tracing it can report any handles at
\* all, and the fewest, none, is the outcome that lets a cycle finalize most.
Reported(k, h) ==
    IF content[<<k, h>>] = UninitValue THEN {} ELSE Range(Trace(content[<<k, h>>]))

RECURSIVE MarkFrom(_, _)
MarkFrom(k, S) ==
    LET seen == UNION {Reported(k, h) : h \in Traceable(k, S)}
        more == S \cup (seen \cap Handles)
    IN IF more = S THEN S ELSE MarkFrom(k, more)

\* the mark phase: everything reachable from the roots of heap k
Marked(k) == MarkFrom(k, Rooted(k))

SetFinalizedAllowedInAnyState(o) == o[2] \notin Marked(o[1])

\* the safety contract of set_finalized: the object holds a value and was
\* found finalizable, that is unreachable
SetFinalizedAllowed(o) == lifecycle[o] = "Initialized" /\ o[2] \notin Marked(o[1])

\* allocs of heap k between allocate and set_initialized
Filling(k) == {t \in Threads : pc[t].at \in {"allocated", "written"} /\ pc[t].heap = k}

\* what a cycle of heap k does with object g, given what earlier cycles did:
\* it invokes the vtable's trace function on the objects of Traceable, walks
\* the other marked objects without tracing them, and never meets the rest
CycleOn(k, g, before) ==
    IF g \in Traceable(k, Marked(k)) \/ before = "traced" THEN "traced"
    ELSE IF g \in Marked(k) THEN "walked"
    ELSE "unmarked"

\* a collection cycle of heap k walks the rooted objects, traces from them,
\* finds h unreachable and finalizes it
CollectorFinalize(k, h) ==
    /\ ~ub
    /\ SetFinalizedAllowed(<<k, h>>)
    /\ lifecycle' \in StrategySetFinalized(lifecycle, <<k, h>>)
    /\ hist' = Logged(<<k, h>>, "set_finalized", "collector")
    /\ pc' = [t \in Threads |->
                IF t \in Filling(k)
                THEN [pc[t] EXCEPT !.cycle = CycleOn(k, pc[t].handle, @)]
                ELSE pc[t]]
    /\ UNCHANGED <<rootCount, pinCount, content, nextHandle, guards, built, dropUnroots,
                   copies, extVars, traceVars>>

(***************************************************************************)
(* Calls made on the backend directly, through GcHeap::strategy()          *)
(* (lib.rs 136-138). pin and unpin are safe functions, kept balanced by    *)
(* the caller; set_initialized and set_finalized are unsafe functions a    *)
(* caller can apply to any handle.                                         *)
(***************************************************************************)
Usable(o) == lifecycle[o] \in {"Uninitialized", "Initialized"}

DirectPin(o) ==
    /\ ~ub
    /\ Usable(o)
    /\ SumOver(extPins, Objects) < MaxExt
    /\ pinCount' = StrategyPin(pinCount, o)
    /\ extPins' = [extPins EXCEPT ![o] = @ + 1]
    /\ UNCHANGED <<lifecycle, rootCount, content, nextHandle, hist, appVars,
                   ub, traceVars>>

DirectUnpin(o) ==
    /\ ~ub
    /\ extPins[o] > 0
    /\ pinCount' = StrategyUnpin(pinCount, o)
    /\ extPins' = [extPins EXCEPT ![o] = @ - 1]
    /\ UNCHANGED <<lifecycle, rootCount, content, nextHandle, hist, appVars,
                   ub, traceVars>>

\* unsafe { heap.strategy().set_initialized(h) }
DirectSetInitialized(o) ==
    /\ ~ub
    /\ lifecycle[o] # "Unallocated"
    /\ \E out \in StrategySetInitialized(lifecycle, pinCount, o) :
          /\ lifecycle' = out.lifecycle
          /\ pinCount' = out.pinCount
    /\ hist' = Logged(o, "set_initialized", "strategy")
    /\ ub' = ~SetInitializedAllowed(o)
    /\ UNCHANGED <<rootCount, content, nextHandle, appVars, extPins, traceVars>>

\* unsafe { heap.strategy().set_finalized(h) }
DirectSetFinalized(o) ==
    /\ ~ub
    /\ lifecycle[o] # "Unallocated"
    /\ lifecycle' \in StrategySetFinalized(lifecycle, o)
    /\ hist' = Logged(o, "set_finalized", "strategy")
    /\ ub' = ~SetFinalizedAllowed(o)
    /\ UNCHANGED <<rootCount, pinCount, content, nextHandle, appVars, extPins,
                   traceVars>>

(***************************************************************************)
(* One trace call on a value built from the built-in Trace types, with a   *)
(* visitor that records the handles it receives (trace.rs 5-13).           *)
(***************************************************************************)
SeqsOver(S, n) == UNION {[1..m -> S] : m \in 0..n}

Containers(S) ==
    {Val("None", 0, <<>>)}
    \cup {Val(k, 0, <<x>>) : k \in {"Some", "Ok", "Err"} \cup PtrKinds, x \in S}
    \cup {Val(k, 0, es) : k \in SeqKinds, es \in SeqsOver(S, MaxLen)}
    \cup {Val("Tuple", 0, es) : es \in SeqsOver(S, MaxLen) \ {<<>>}}

Leaves == {BaseValue, FnValue} \cup {GcValue(h) : h \in Handles}

\* values to nest inside a second container
Inner ==
    {GcValue(1), Val("None", 0, <<>>), Val("Some", 0, <<GcValue(1)>>),
     Val("Err", 0, <<GcValue(MaxAllocs)>>),
     Val("Vec", 0, <<GcValue(1), GcValue(1)>>),
     Val("Box", 0, <<GcValue(MaxAllocs)>>)}

TraceValues == Leaves \cup Containers(Leaves) \cup Containers(Inner)

\* `value.trace(&TraceContext { gc_visitor })`
TraceCall ==
    /\ tpc = "ready"
    /\ visited' = Trace(tval)
    /\ tpc' = "done"
    /\ UNCHANGED <<heapVars, appVars, extVars, tval>>

(***************************************************************************)
(* Specifications.                                                         *)
(***************************************************************************)
Init ==
    /\ lifecycle = [o \in Objects |-> "Unallocated"]
    /\ rootCount = [o \in Objects |-> 0]
    /\ pinCount = [o \in Objects |-> 0]
    /\ content = [o \in Objects |-> UninitValue]
    /\ nextHandle = [k \in Heaps |-> 0]
    /\ hist = [o \in Objects |-> <<>>]
    /\ guards = EmptyBag
    /\ built = [o \in Objects |-> 0]
    /\ dropUnroots = [o \in Objects |-> 0]
    /\ copies = {}
    /\ pc = [t \in Threads |-> Idle]
    /\ extPins = [o \in Objects |-> 0]
    /\ ub = FALSE
    /\ tval = BaseValue
    /\ visited = <<>>
    /\ tpc = "idle"

\* the facade and the collector. Past a lifecycle call made outside its
\* safety contract the program has no defined behaviour, and the model does
\* not follow it further.
Next ==
    \/ \E t \in Threads, k \in Heaps : \E v \in AllocValues(k) : AllocAllocate(t, k, v)
    \/ \E t \in Threads, k \in Heaps : AllocOutOfMemory(t, k)
    \/ \E t \in Threads : AllocWrite(t)
    \/ \E t \in Threads : AllocSetInitialized(t)
    \/ \E t \in Threads : AllocReturn(t)
    \/ \E t \in Threads, c \in Objects : GcHeapRoot(t, c)
    \/ \E r \in LiveGuards : CopyGc(r)
    \/ \E r \in LiveGuards : DropRoot(r)
    \/ \E r \in LiveGuards : DropUnwinding(r)
    \/ \E t \in Threads : Unwound(t)
    \/ \E k \in Heaps, h \in Handles : CollectorFinalize(k, h)

Spec == Init /\ [][Next]_vars

\* the facade, the collector and callers of the backend's safe functions
NextStrategy ==
    \/ Next
    \/ \E o \in Objects : DirectPin(o)
    \/ \E o \in Objects : DirectUnpin(o)

SpecStrategy == Init /\ [][NextStrategy]_vars

\* the facade, the collector and callers of the backend's unsafe functions
NextUnsafe ==
    \/ Next
    \/ \E o \in Objects : DirectSetInitialized(o)
    \/ \E o \in Objects : DirectSetFinalized(o)

SpecUnsafe == Init /\ [][NextUnsafe]_vars

\* heap 1 after MaxAllocs allocations whose guards have been dropped:
\* object h holds a sequence with the Gc of object h + 1, the last an integer
TracedHeap == CHOOSE k \in Heaps : \A j \in Heaps : k <= j
ChainValue(h) == IF h < MaxAllocs THEN Val("Vec", 0, <<GcValue(h + 1)>>) ELSE BaseValue
Settled(o) ==
    <<Call("allocate", "Unallocated", "alloc"), Call("write", "Uninitialized", "alloc"),
      Call("set_initialized", "Uninitialized", "alloc"), Call("Root", "Initialized", "alloc")>>

InitTrace ==
    /\ lifecycle = [o \in Objects |-> IF o[1] = TracedHeap THEN "Initialized" ELSE "Unallocated"]
    /\ rootCount = [o \in Objects |-> 0]
    /\ pinCount = [o \in Objects |-> 0]
    /\ content = [o \in Objects |-> IF o[1] = TracedHeap THEN ChainValue(o[2]) ELSE UninitValue]
    /\ nextHandle = [k \in Heaps |-> IF k = TracedHeap THEN MaxAllocs ELSE 0]
    /\ hist = [o \in Objects |-> IF o[1] = TracedHeap THEN Settled(o) ELSE <<>>]
    /\ guards = EmptyBag
    /\ built = [o \in Objects |-> IF o[1] = TracedHeap THEN 1 ELSE 0]
    /\ dropUnroots = [o \in Objects |-> IF o[1] = TracedHeap THEN 1 ELSE 0]
    /\ copies = {}
    /\ pc = [t \in Threads |-> Idle]
    /\ extPins = [o \in Objects |-> 0]
    /\ ub = FALSE
    /\ tval \in TraceValues
    /\ visited = <<>>
    /\ tpc = "ready"

NextTrace == TraceCall

SpecTrace == InitTrace /\ [][NextTrace]_vars

(***************************************************************************)
(* Properties.                                                             *)
(***************************************************************************)
\* the live guards that heap o[1] built for handle o[2]
BuiltLive(o) == Copies(guards, {r \in LiveGuards : r.by = o[1] /\ r.handle = o[2]})

\* the object an alloc in flight is working on
InFlightObjects == {AllocHandle(t) : t \in InFlight}

\* the calls GcHeap::alloc has made on object o, in order
AllocCalls(o) == SelectSeq(hist[o], LAMBDA e : e.by = "alloc")
AllocOrder == <<"allocate", "write", "set_initialized", "Root">>

\* C1: every Root guard a heap's alloc or root has built for a handle is
\* either still live or has been dropped with exactly one unroot, made for
\* that handle on the backend of that heap: the unroot calls the drops have
\* made on an object are as many as the guards built for it and dropped.
C1_RootBalance ==
    \A o \in Objects : built[o] = BuiltLive(o) + dropUnroots[o]

\* both guards of one handle, alloc's and root's, have been dropped
C1_Witness ==
    \E o \in Objects : built[o] = 2 /\ dropUnroots[o] = 2 /\ GuardsOf(o) = 0

\* C2: on each object GcHeap::alloc makes its calls in the order allocate,
\* write, set_initialized, Root guard, each once; the write and the
\* set_initialized find the object Uninitialized, the guard is built for an
\* Initialized object that holds the value, and an alloc that has returned
\* has made all four.
C2_AllocOrder ==
    \A o \in Objects :
        LET a == AllocCalls(o)
        IN /\ Len(a) <= Len(AllocOrder)
           /\ \A i \in 1..Len(a) : a[i].call = AllocOrder[i]
           /\ Len(a) >= 1 => a[1].pre = "Unallocated"
           /\ Len(a) >= 2 => a[2].pre = "Uninitialized" /\ content[o] # UninitValue
           /\ Len(a) >= 3 => a[3].pre = "Uninitialized"
           /\ Len(a) >= 4 => a[4].pre = "Initialized" /\ BuiltLive(o) + dropUnroots[o] >= 1
           /\ (lifecycle[o] # "Unallocated" /\ o \notin InFlightObjects) => Len(a) = 4
           /\ o \in InFlightObjects => Len(a) \in 1..3

\* an alloc has returned its guard for an object that holds a sequence
C2_Witness ==
    \E o \in Objects :
        /\ Len(AllocCalls(o)) = 4
        /\ GuardsOf(o) = 1
        /\ content[o].kind = "Vec"
        /\ lifecycle[o] = "Initialized"

\* C3: outside an alloc in flight, the root count of every handle is the
\* number of live Root guards for it.
C3_RootCountIsGuards ==
    \A o \in Objects : o \notin InFlightObjects => rootCount[o] = GuardsOf(o)

\* a handle with two live guards, alloc's and root's
C3_Witness ==
    \E o \in Objects : GuardsOf(o) = 2 /\ rootCount[o] = 2

\* C4: an object with a live Root guard is marked by the collection cycle
\* and no step takes it to Finalized.
C4_GuardedNotFinalized ==
    [][\A o \in Objects :
          GuardsOf(o) > 0 =>
             /\ o[2] \in Marked(o[1])
             /\ lifecycle'[o] = "Finalized" => lifecycle[o] = "Finalized"]_vars

\* a cycle has finalized one object of a heap while another, unreferenced
\* by anything but its guard, is kept
C4_Witness ==
    \E o \in Objects, u \in Objects :
        /\ o[1] = u[1]
        /\ GuardsOf(o) > 0
        /\ lifecycle[o] = "Initialized"
        /\ lifecycle[u] = "Finalized"

\* every lifecycle transition in the history of o was applied in the state
\* it is valid in, and o went through each transition at most once
Transitions(o) == SelectSeq(hist[o], LAMBDA e : e.call \in {"set_initialized", "set_finalized"})
InOrder(o) ==
    LET tr == Transitions(o)
    IN /\ Len(tr) <= 2
       /\ Len(tr) >= 1 => tr[1].call = "set_initialized" /\ tr[1].pre = "Uninitialized"
       /\ Len(tr) >= 2 => tr[2].call = "set_finalized" /\ tr[2].pre = "Initialized"

DirectCalls == {o \in Objects : \E i \in 1..Len(hist[o]) : hist[o][i].by = "strategy"}

C6_PinRootIndependent ==
    [][/\ extPins' # extPins => rootCount' = rootCount /\ pinCount' # pinCount
       /\ (guards' # guards /\ hist' = hist) =>
             /\ rootCount' # rootCount
             /\ pinCount' = pinCount
             /\ lifecycle' = lifecycle
       /\ \A o \in Objects :
             (lifecycle[o] = "Uninitialized" /\ lifecycle'[o] = "Initialized") =>
                /\ pinCount' = [pinCount EXCEPT ![o] = @ - 1]
                /\ rootCount' = rootCount]_vars

\* an object pinned through strategy() after its last guard was dropped:
\* pin count 1, root count 0
C6_Witness ==
    \E o \in Objects :
        /\ lifecycle[o] = "Initialized"
        /\ extPins[o] = 1
        /\ pinCount[o] = 1
        /\ rootCount[o] = 0
        /\ dropUnroots[o] >= 1

\* C7: the step in which alloc's allocate returns None and alloc panics
\* builds no guard and changes no lifecycle state, root count, pin count,
\* stored value or lifecycle history.
C7_OutOfMemoryAborts ==
    [][\A t \in Threads :
          (pc[t].at = "idle" /\ pc'[t].at = "panicking") =>
             UNCHANGED <<lifecycle, rootCount, pinCount, content, nextHandle, hist,
                         guards, built, dropUnroots>>]_vars

\* alloc has panicked in a thread that holds a guard from an earlier alloc
C7_Witness ==
    \E t \in Threads, r \in LiveGuards :
        /\ pc[t].at = "panicking"
        /\ r.owner = t
        /\ rootCount[<<r.gc, r.handle>>] = 1

\* the places of a value's tree, as index paths, and the value at a place
RECURSIVE Positions(_)
Positions(v) ==
    {<<>>} \cup UNION {{<<i>> \o q : q \in Positions(v.elems[i])} : i \in 1..Len(v.elems)}

RECURSIVE NodeAt(_, _)
NodeAt(v, q) == IF q = <<>> THEN v ELSE NodeAt(v.elems[Head(q)], Tail(q))

\* how many Gc of handle h are stored in v, and how often h was visited
StoredCount(v, h) == Cardinality({q \in Positions(v) : NodeAt(v, q) = GcValue(h)})
VisitCount(h) == Cardinality({i \in 1..Len(visited) : visited[i] = h})

\* C8: one trace call reports each handle to the visitor exactly as many
\* times as a Gc of that handle is stored in the value, and nothing else;
\* a Gc reports itself once and nothing of the object it refers to.
C8_TraceReportsStored ==
    tpc = "done" =>
        /\ \A h \in Handles : VisitCount(h) = StoredCount(tval, h)
        /\ Range(visited) \subseteq Handles
        /\ tval.kind = "Gc" => visited = <<tval.h>>

\* a container nested in a container, holding the same Gc twice
C8_Witness ==
    /\ tpc = "done"
    /\ tval.kind = "Tuple"
    /\ Len(tval.elems) = 2
    /\ tval.elems[1].kind = "Vec"
    /\ visited = <<1, 1, 1>>

\* C9 as claimed: no root and no pin is applied to a Finalized object, and
\* the collection cycle traces no Finalized object.
C9_NoUseAfterFinalized ==
    [][\A o \in Objects :
          /\ (rootCount'[o] > rootCount[o] \/ pinCount'[o] > pinCount[o]) =>
                lifecycle[o] # "Finalized"
          /\ o[2] \in Traceable(o[1], Marked(o[1])) => lifecycle[o] # "Finalized"]_vars

\* C10: every Uninitialized object is pinned and rooted.
C10_UninitializedPinnedRooted ==
    \A o \in Objects :
        lifecycle[o] = "Uninitialized" => pinCount[o] >= 1 /\ rootCount[o] >= 1

\* an alloc is between allocate and set_initialized, its value written,
\* while the collector has finalized another object of the same heap
C10_Witness ==
    \E o \in Objects, u \in Objects :
        /\ o[1] = u[1]
        /\ lifecycle[o] = "Uninitialized"
        /\ content[o] # UninitValue
        /\ lifecycle[u] = "Finalized"

\* C11: the collection cycles that run while an alloc is between allocate
\* and set_initialized walk its rooted object and never invoke the trace
\* function on it: no cycle traces an object that is Uninitialized or whose
\* storage holds no value yet.
C11_UninitializedNotTraced ==
    /\ \A t \in Threads : pc[t].cycle \in {"none", "walked"}
    /\ \A k \in Heaps : \A g \in Traceable(k, Marked(k)) :
          lifecycle[<<k, g>>] # "Uninitialized" /\ content[<<k, g>>] # UninitValue

\* a cycle ran while an alloc was between allocate and the write, walked the
\* rooted object without tracing it, and the alloc has gone on to write the
\* value and to mark the object initialized
C11_Witness ==
    \E t \in Threads :
        /\ pc[t].at = "initialized"
        /\ pc[t].cycle = "walked"
        /\ content[AllocHandle(t)] = pc[t].val
        /\ lifecycle[AllocHandle(t)] = "Initialized"

====
